---- MODULE Spec2Model ----
(***************************************************************************)
(* Model of crates/cpp-sas7bdat/src/lib.rs: SasReader (the safe wrapper    *)
(* around the C reader handle), its schema cache, the two batch reads and  *)
(* SasBatchIterator.  The C engine behind the extern "C" block is the      *)
(* environment: each engine call answers with a status code chosen from    *)
(* the codes the call can return.                                          *)
(*                                                                         *)
(* Conventions.  Option<T> is a sequence of length <= 1 (None == <<>>,     *)
(* Some(x) == <<x>>); a nullable C string is an Option of a text.  A text  *)
(* is a sequence of words, and str::contains is subsequence search on it.  *)
(***************************************************************************)
EXTENDS Integers, Sequences, FiniteSets, Bags, TLC

\* ---------------------------------------------------------------- bounds
MaxBatches == 2

\* calls made on one reader: enough to stream every batch, meet the end of the
\* data and call once more
MaxOps == MaxBatches + 2

\* calls made on one SasReader used directly
MaxCalls == 3

\* ------------------------------------------------- SasArrowErrorCode
SasArrowOk == 0
SasArrowErrorFileNotFound == 1
SasArrowErrorInvalidFile == 2
SasArrowErrorOutOfMemory == 3
SasArrowErrorArrowError == 4
SasArrowErrorEndOfData == 5
SasArrowErrorInvalidBatchIndex == 6
SasArrowErrorNullPointer == 7

SasArrowErrorCode == SasArrowOk .. SasArrowErrorNullPointer

None == << >>
Some(x) == << x >>

\* ------------------------------------------------------------- texts
\* needle occurs in hay as a contiguous run (str::contains)
Contains(hay, needle) ==
    \E i \in 1 .. (Len(hay) - Len(needle) + 1) :
        SubSeq(hay, i, i + Len(needle) - 1) = needle

EndOfDataNeedle == << "End", "of", "data" >>
EndOfDataReached == << "End", "of", "data", "reached" >>

\* PolarsError values: variant and message text
ComputeError(msg) == [variant |-> "ComputeError", msg |-> msg]
IoNotFound(msg) == [variant |-> "IO", msg |-> msg]
NoError == [variant |-> "none", msg |-> << >>]

\* e.to_string(): both variants display their message text
to_string(e) == e.msg

\* what the engine may answer for sas_arrow_error_message / get_last_error
StaticMsgs == { None, Some(<< "engine", "error" >>) }
LastErrors == { None, Some(<< >>), Some(<< "bad", "page" >>),
                Some(<< "Unexpected", "End", "of", "data" >>) }

\* mutant of error_from_code: the last-error detail is read but not appended
error_from_code_static_only(code, smsg, lerr) ==
    LET message == IF smsg = None THEN << "Unknown", "error" >> ELSE smsg[1]
        last_error == message
    IN  CASE code = SasArrowErrorFileNotFound -> IoNotFound(last_error)
          [] code = SasArrowErrorOutOfMemory ->
                 ComputeError(<< "Out", "of", "memory:" >> \o last_error)
          [] OTHER -> ComputeError(last_error)

error_from_code(code, smsg, lerr) ==
    LET message == IF smsg = None THEN << "Unknown", "error" >> ELSE smsg[1]
        last_error == IF lerr # None
                        THEN IF lerr[1] # << >>
                               THEN message \o << ":" >> \o lerr[1]
                               ELSE message
                        ELSE message
    IN  CASE code = SasArrowErrorFileNotFound -> IoNotFound(last_error)
          [] code = SasArrowErrorOutOfMemory ->
                 ComputeError(<< "Out", "of", "memory:" >> \o last_error)
          [] OTHER -> ComputeError(last_error)

\* ------------------------------------------------------- raw schemas
Col(n, t) == [name |-> n, dtype |-> t]
StructSchema(cols) == [valid |-> TRUE, dtype |-> "Struct", children |-> cols]

\* the raw schemas the engine may hold for a file
RawSchemas ==
    { StructSchema(<< Col("b", "Int64"), Col("a", "Utf8") >>),
      StructSchema(<< Col("a", "Utf8") >>),
      StructSchema(<< Col("a", "Float64"), Col("b", "Int32") >>),
      [valid |-> TRUE, dtype |-> "Float64", children |-> << >>],
      [valid |-> FALSE, dtype |-> "Struct", children |-> << >>] }

\* polars_arrow::ffi::import_field_from_c
import_field_from_c(raw) ==
    IF raw.valid
      THEN [ok |-> TRUE, field |-> [dtype |-> raw.dtype, fields |-> raw.children]]
      ELSE [ok |-> FALSE, field |-> [dtype |-> "none", fields |-> << >>]]

\* mutant of Unsupported: the fallback arm maps an unexpected type to a default
Unsupported_fallback(arrow_type) == [ok |-> TRUE, dtype |-> "String"]

\* the fallback arm of arrow_dtype_to_polars: an error naming the type
Unsupported(arrow_type) == [ok |-> FALSE, dtype |-> arrow_type]

\* mutant of arrow_dtype_to_polars: second resolution becomes microseconds
arrow_dtype_to_polars_micro(arrow_type) ==
    CASE arrow_type \in {"Utf8", "LargeUtf8"} -> [ok |-> TRUE, dtype |-> "String"]
      [] arrow_type = "Int64" -> [ok |-> TRUE, dtype |-> "Int64"]
      [] arrow_type = "Float64" -> [ok |-> TRUE, dtype |-> "Float64"]
      [] arrow_type = "Timestamp_us" -> [ok |-> TRUE, dtype |-> "Datetime_us"]
      [] arrow_type = "Timestamp_ns" -> [ok |-> TRUE, dtype |-> "Datetime_ns"]
      [] arrow_type = "Timestamp_ms" -> [ok |-> TRUE, dtype |-> "Datetime_ms"]
      [] arrow_type = "Timestamp_s" -> [ok |-> TRUE, dtype |-> "Datetime_us"]
      [] arrow_type = "Date32" -> [ok |-> TRUE, dtype |-> "Date"]
      [] arrow_type \in {"Time64_us", "Time64_ns"} -> [ok |-> TRUE, dtype |-> "Time"]
      [] OTHER -> Unsupported(arrow_type)

arrow_dtype_to_polars(arrow_type) ==
    CASE arrow_type \in {"Utf8", "LargeUtf8"} -> [ok |-> TRUE, dtype |-> "String"]
      [] arrow_type = "Int64" -> [ok |-> TRUE, dtype |-> "Int64"]
      [] arrow_type = "Float64" -> [ok |-> TRUE, dtype |-> "Float64"]
      [] arrow_type = "Timestamp_us" -> [ok |-> TRUE, dtype |-> "Datetime_us"]
      [] arrow_type = "Timestamp_ns" -> [ok |-> TRUE, dtype |-> "Datetime_ns"]
      [] arrow_type = "Timestamp_ms" -> [ok |-> TRUE, dtype |-> "Datetime_ms"]
      [] arrow_type = "Timestamp_s" -> [ok |-> TRUE, dtype |-> "Datetime_ms"]
      [] arrow_type = "Date32" -> [ok |-> TRUE, dtype |-> "Date"]
      [] arrow_type \in {"Time64_us", "Time64_ns"} -> [ok |-> TRUE, dtype |-> "Time"]
      [] OTHER -> Unsupported(arrow_type)

\* order of the column names as String keys of the BTreeMap
NameOrd(n) == CASE n = "a" -> 1 [] n = "b" -> 2 [] OTHER -> 3

\* BTreeMap::insert: keys kept in ascending order, an equal key is overwritten
RECURSIVE BTreeInsert(_, _)
BTreeInsert(m, e) ==
    IF m = << >> THEN << e >>
    ELSE IF NameOrd(e.name) < NameOrd(m[1].name) THEN << e >> \o m
    ELSE IF e.name = m[1].name THEN << e >> \o Tail(m)
    ELSE << m[1] >> \o BTreeInsert(Tail(m), e)

\* the loop of arrow_schema_to_polars_schema over the first k struct fields:
\* stops at the first field arrow_dtype_to_polars rejects
RECURSIVE SchemaMap(_, _)
SchemaMap(fields, k) ==
    IF k = 0 THEN [ok |-> TRUE, map |-> << >>, bad |-> "none"]
    ELSE LET prev == SchemaMap(fields, k - 1)
             t == arrow_dtype_to_polars(fields[k].dtype)
         IN  IF ~prev.ok THEN prev
             ELSE IF ~t.ok THEN [ok |-> FALSE, map |-> << >>, bad |-> t.dtype]
             ELSE [ok |-> TRUE,
                   map |-> BTreeInsert(prev.map, Col(fields[k].name, t.dtype)),
                   bad |-> "none"]

NoField == [dtype |-> "none", fields |-> << >>]

\* mutant of SchemaReleased: the descriptor is released on the success path only
SchemaReleased_leak(ok) == IF ok THEN 1 ELSE 0

\* releases of the raw descriptor by arrow_schema_to_polars_schema: ptr::read
\* moves it into an ffi::ArrowSchema local, whose drop at the end of the function
\* calls release, whether the conversion succeeded (ok) or not
SchemaReleased(ok) == 1

\* Result: ok, err, the polars schema, the arrow field, and how many times the
\* raw descriptor's release callback ran
arrow_schema_to_polars_schema(raw) ==
    LET imp == import_field_from_c(raw)
        sm == SchemaMap(imp.field.fields, Len(imp.field.fields))
    IN  IF ~imp.ok
          THEN [ok |-> FALSE, schema |-> << >>, field |-> NoField, released |-> SchemaReleased(FALSE),
                err |-> ComputeError(<< "Failed", "to", "import", "schema:", "ffi" >>)]
        ELSE IF imp.field.dtype # "Struct"
          THEN [ok |-> FALSE, schema |-> << >>, field |-> NoField, released |-> SchemaReleased(FALSE),
                err |-> ComputeError(<< "Expected", "struct", "data", "type",
                                        "from", "SAS", "data" >>)]
        ELSE IF ~sm.ok
          THEN [ok |-> FALSE, schema |-> << >>, field |-> NoField, released |-> SchemaReleased(FALSE),
                err |-> ComputeError(<< "Unsupported", "SAS", "Arrow", "data",
                                        "type:", sm.bad >>)]
        ELSE [ok |-> TRUE, schema |-> sm.map, field |-> imp.field, released |-> SchemaReleased(TRUE),
              err |-> NoError]


\* ----------------------------------------------------------------- state
VARIABLES
    file,      \* the file behind the handle: batch count and raw schema
    eng,       \* engine side of the handle: handle state, forward cursor
    rd,        \* SasReader: state, info, cached_schema, cached_arrow_field
    it,        \* owner of the reader and SasBatchIterator.finished
    bufs,      \* release records of the batch buffers no value owns any more
    sdescs,    \* release records of the schema descriptors handed over
    frames,    \* bag of the DataFrames the consumer still holds
    ncalls,    \* number of calls of the counted engine functions so far
    last,      \* the last call on the reader: its name, engine calls, result
    outs,      \* items produced by SasBatchIterator::next so far
    nops,      \* operations performed
    faulted    \* whether the engine has failed a call or handed over a bad array

vars == << file, eng, rd, it, bufs, sdescs, frames, ncalls, last, outs, nops, faulted >>

\* a u32 is kept as << high half, low half >>, each half below HalfModulus
HalfModulus == 65536

U32(n) == << n \div HalfModulus, n % HalfModulus >>

\* x - 1 in wrapping u32 arithmetic
U32WrappingDec(x) ==
    IF x[2] > 0 THEN << x[1], x[2] - 1 >>
    ELSE IF x[1] > 0 THEN << x[1] - 1, HalfModulus - 1 >>
    ELSE << HalfModulus - 1, HalfModulus - 1 >>

\* engine functions whose calls are counted over the reader's lifetime; the
\* calls of one operation are all listed in last.calls
CountedFns == { "get_schema", "destroy" }

\* one engine call: the function and the status code it returned (SasArrowOk
\* for the functions that return no status)
Call(fn, code) == [fn |-> fn, code |-> code]

\* engine calls made by error_from_code
ErrCalls == << Call("error_message", SasArrowOk), Call("get_last_error", SasArrowOk) >>

RECURSIVE CountIn(_, _)
CountIn(s, f) ==
    IF s = << >> THEN 0 ELSE (IF s[1].fn = f THEN 1 ELSE 0) + CountIn(Tail(s), f)

Bump(n, calls) == [f \in CountedFns |-> n[f] + CountIn(calls, f)]

\* --------------------------------------------------- engine responses
OkResp == [code |-> SasArrowOk, smsg |-> None, lerr |-> None]
EndResp == [code |-> SasArrowErrorEndOfData, smsg |-> None, lerr |-> None]
ErrCodes == SasArrowErrorCode \ { SasArrowOk }
\* a failing call: any of the codes, the engine's static message for it, and
\* no last-error detail or one that mentions the end of the data
FaultResps(codes) == [code : codes, smsg : { Some(<< "engine", "error" >>) },
                      lerr : { None, Some(<< "Unexpected", "End", "of", "data" >>) }]

\* answers of a call whose regular answer is natural: that one, or a failure
Resps(natural, codes) == { natural } \cup FaultResps(codes)

\* sas_arrow_reader_next_batch: the batch under the cursor, EndOfData past the end
NextNatural(cursor) == IF cursor < file.num_batches THEN OkResp ELSE EndResp

\* condition of the batch array the engine hands over
BatchQualities == { "good", "bad_array", "bad_column" }

EngInfo ==
    [num_rows |-> file.num_batches, num_columns |-> Len(file.schema.children),
     num_batches |-> file.num_batches, chunk_size |-> 1]

NoInfo == [num_rows |-> 0, num_columns |-> 0, num_batches |-> 0, chunk_size |-> 0]

\* ------------------------------------------------------------ results
NoFrame == [batch |-> 0, cols |-> << >>, retains |-> FALSE, rel |-> 0]
Res(kind, err, df, val) == [kind |-> kind, err |-> err, df |-> df, val |-> val]
NoRes == Res("none", NoError, NoFrame, << >>)

\* inner is the kind of the SasReader-level result ("Ok" or "Err") behind res
Last(op, arg, calls, res, inner) ==
    [op |-> op, arg |-> arg, calls |-> calls, res |-> res, inner |-> inner,
     wasFinished |-> it.finished, hadSchema |-> rd.cached_schema # None]

Init ==
    /\ file \in [num_batches : 0 .. MaxBatches, schema : RawSchemas]
    /\ eng = [handle |-> "none", cursor |-> 0]
    /\ rd = [state |-> "none", info |-> NoInfo,
             cached_schema |-> None, cached_arrow_field |-> None]
    /\ it = [owner |-> "none", finished |-> FALSE]
    /\ bufs = { }
    /\ sdescs = { }
    /\ frames = EmptyBag
    /\ ncalls = [f \in CountedFns |-> 0]
    /\ last = [op |-> "init", arg |-> 0, calls |-> << >>, res |-> NoRes, inner |-> "none",
               wasFinished |-> FALSE, hadSchema |-> FALSE]
    /\ outs = << >>
    /\ nops = 0
    /\ faulted = FALSE

\* ------------------------------------------------------ SasReader::new
\* owner is "reader" for SasReader::new called directly and "iterator" for
\* SasBatchIterator::new, which wraps the reader with finished = false
SasReaderNew(owner) ==
    /\ rd.state = "none"
    /\ \E r1 \in Resps(OkResp, ErrCodes) :
       \E r2 \in (IF r1.code = SasArrowOk THEN Resps(OkResp, ErrCodes) ELSE { OkResp }) :
          /\ faulted' = (faulted \/ r1 # OkResp \/ r2 # OkResp)
          /\ IF r1.code # SasArrowOk
               THEN /\ rd' = [rd EXCEPT !.state = "failed"]
                    /\ eng' = eng
                    /\ it' = it
                    /\ LET calls == << Call("new", r1.code) >> \o ErrCalls
                       IN  /\ ncalls' = Bump(ncalls, calls)
                           /\ last' = Last("new", 0, calls,
                                  Res("Err", error_from_code(r1.code, r1.smsg, r1.lerr),
                                      NoFrame, << >>), "Err")
               ELSE IF r2.code # SasArrowOk
               THEN /\ rd' = [rd EXCEPT !.state = "failed"]
                    /\ eng' = [eng EXCEPT !.handle = "destroyed"]
                    /\ it' = it
                    /\ LET calls == << Call("new", r1.code), Call("get_info", r2.code),
                                        Call("destroy", SasArrowOk) >> \o ErrCalls
                       IN  /\ ncalls' = Bump(ncalls, calls)
                           /\ last' = Last("new", 0, calls,
                                  Res("Err", error_from_code(r2.code, r2.smsg, r2.lerr),
                                      NoFrame, << >>), "Err")
               ELSE /\ rd' = [state |-> "open", info |-> EngInfo,
                              cached_schema |-> None, cached_arrow_field |-> None]
                    /\ eng' = [handle |-> "open", cursor |-> 0]
                    /\ it' = [owner |-> owner, finished |-> FALSE]
                    /\ LET calls == << Call("new", r1.code), Call("get_info", r2.code) >>
                       IN  /\ ncalls' = Bump(ncalls, calls)
                           /\ last' = Last("new", 0, calls,
                                           Res("Ok", NoError, NoFrame, << >>), "Ok")
    /\ UNCHANGED << file, bufs, sdescs, frames, outs, nops >>

\* ------------------------------------------- SasReader::get_schema_info
\* mutant of CacheHit: the cache is never consulted
CacheHit_never(cs) == FALSE

\* the test on cached_schema that opens get_schema_info
CacheHit(cs) == cs # None

\* the end of get_schema_info, c being what arrow_schema_to_polars_schema
\* returned for the descriptor fetched: `?` leaves on a failed conversion with
\* the cache as it was, otherwise both halves are stored
store_converted(cs, caf, resp, c) ==
    IF ~c.ok
      THEN [ok |-> FALSE, err |-> c.err,
            cached_schema |-> cs, cached_arrow_field |-> caf,
            calls |-> << Call("get_schema", resp.code) >>,
            descs |-> { [origin |-> "get_schema", rel |-> c.released] }]
      ELSE [ok |-> TRUE, err |-> NoError,
            cached_schema |-> Some(c.schema), cached_arrow_field |-> Some(c.field),
            calls |-> << Call("get_schema", resp.code) >>,
            descs |-> { [origin |-> "get_schema", rel |-> c.released] }]

\* mutant of get_schema_info: the arrow field is stored before the conversion
\* is known to have succeeded
get_schema_info_field_first(cs, caf, resp) ==
    IF CacheHit(cs)
      THEN [ok |-> TRUE, err |-> NoError, cached_schema |-> cs, cached_arrow_field |-> caf,
            calls |-> << >>, descs |-> { }]
    ELSE IF resp.code # SasArrowOk
      THEN [ok |-> FALSE, err |-> error_from_code(resp.code, resp.smsg, resp.lerr),
            cached_schema |-> cs, cached_arrow_field |-> caf,
            calls |-> << Call("get_schema", resp.code) >> \o ErrCalls, descs |-> { }]
    ELSE LET c == arrow_schema_to_polars_schema(file.schema)
             d == { [origin |-> "get_schema", rel |-> c.released] }
         IN  IF ~c.ok
               THEN [ok |-> FALSE, err |-> c.err,
                     cached_schema |-> cs, cached_arrow_field |-> Some(c.field),
                     calls |-> << Call("get_schema", resp.code) >>, descs |-> d]
               ELSE [ok |-> TRUE, err |-> NoError,
                     cached_schema |-> Some(c.schema), cached_arrow_field |-> Some(c.field),
                     calls |-> << Call("get_schema", resp.code) >>, descs |-> d]

\* Effect of get_schema_info on a reader whose cache is (cs, caf), the engine
\* answering resp to sas_arrow_reader_get_schema
get_schema_info(cs, caf, resp) ==
    IF CacheHit(cs)
      THEN [ok |-> TRUE, err |-> NoError, cached_schema |-> cs, cached_arrow_field |-> caf,
            calls |-> << >>, descs |-> { }]
    ELSE IF resp.code # SasArrowOk
      THEN [ok |-> FALSE, err |-> error_from_code(resp.code, resp.smsg, resp.lerr),
            cached_schema |-> cs, cached_arrow_field |-> caf,
            calls |-> << Call("get_schema", resp.code) >> \o ErrCalls, descs |-> { }]
    ELSE store_converted(cs, caf, resp, arrow_schema_to_polars_schema(file.schema))

\* answers the engine may give to the schema fetch of the next get_schema_info
SchemaResps == IF rd.cached_schema # None THEN { OkResp } ELSE Resps(OkResp, ErrCodes)

Usable == rd.state = "open" /\ nops < (IF it.owner = "iterator" THEN MaxOps ELSE MaxCalls)

\* mutant of GetSchemaInfo: the schema query reads a batch to learn the schema,
\* which moves the forward cursor
GetSchemaInfo_reads ==
    /\ rd.state = "open" /\ nops < (IF it.owner = "iterator" THEN MaxOps ELSE MaxCalls)
    /\ \E r \in SchemaResps :
         LET g == get_schema_info(rd.cached_schema, rd.cached_arrow_field, r)
         IN  /\ rd' = [rd EXCEPT !.cached_schema = g.cached_schema,
                                 !.cached_arrow_field = g.cached_arrow_field]
             /\ sdescs' = sdescs \cup g.descs
             /\ ncalls' = Bump(ncalls, g.calls)
             /\ faulted' = (faulted \/ r # OkResp)
             /\ eng' = [eng EXCEPT !.cursor = IF g.ok THEN @ + 1 ELSE @]
             /\ last' = Last("get_schema_info", 0, g.calls,
                             IF g.ok THEN Res("Ok", NoError, NoFrame, g.cached_schema[1])
                                     ELSE Res("Err", g.err, NoFrame, << >>),
                             IF g.ok THEN "Ok" ELSE "Err")
    /\ nops' = nops + 1
    /\ UNCHANGED << file, it, bufs, frames, outs >>

\* get_schema_info called by the owner: directly on a SasReader, or through
\* SasBatchIterator::schema
GetSchemaInfo ==
    /\ Usable
    /\ \E r \in SchemaResps :
         LET g == get_schema_info(rd.cached_schema, rd.cached_arrow_field, r)
         IN  /\ rd' = [rd EXCEPT !.cached_schema = g.cached_schema,
                                 !.cached_arrow_field = g.cached_arrow_field]
             /\ sdescs' = sdescs \cup g.descs
             /\ ncalls' = Bump(ncalls, g.calls)
             /\ faulted' = (faulted \/ r # OkResp)
             /\ last' = Last("get_schema_info", 0, g.calls,
                             IF g.ok THEN Res("Ok", NoError, NoFrame, g.cached_schema[1])
                                     ELSE Res("Err", g.err, NoFrame, << >>),
                             IF g.ok THEN "Ok" ELSE "Err")
    /\ nops' = nops + 1
    /\ UNCHANGED << file, eng, it, bufs, frames, outs >>


\* ------------------------------------ arrow_to_dataframe_with_field
\* arrow types whose polars Series shares the imported buffers (no copy)
ZeroCopyTypes == { "Float64", "Int64" }

HasZeroCopy(field) == \E j \in 1 .. Len(field.fields) : field.fields[j].dtype \in ZeroCopyTypes

\* whether the Series of a column outside ZeroCopyTypes keeps the imported
\* buffer alive is the arrow library's choice
KeepChoices(field, q) ==
    IF q = "good" /\ field.dtype = "Struct" /\ Len(field.fields) > 0 /\ ~HasZeroCopy(field)
      THEN BOOLEAN ELSE { FALSE }

\* mutant of ConvReleased: an early error return forgets the buffer
ConvReleased_leak(ok, retains) == IF ok THEN (IF retains THEN 0 ELSE 1) ELSE 0

\* mutant of ConvReleased: the buffer is released at the return even when the
\* returned DataFrame shares it
ConvReleased_eager(ok, retains) == 1

\* releases of the batch buffer before arrow_to_dataframe_with_field returns:
\* ptr::read moves c_array into an ffi::ArrowArray, import_array_from_c puts it
\* behind an Arc shared by every imported buffer, and release runs when the last
\* owner is dropped: at the return, unless the returned DataFrame retains it
ConvReleased(ok, retains) == IF ok /\ retains THEN 0 ELSE 1

\* rows of one batch of the file: the engine cuts the rows into chunks
BatchRows(batch) == EngInfo.chunk_size

\* the columns built by the loop over struct_fields, for the first k fields:
\* the Series of field k is named after it and holds child k of the struct
\* array, whose length the import has checked against the array's
RECURSIVE Columns(_, _, _)
Columns(fields, batch, k) ==
    IF k = 0 THEN << >>
    ELSE Append(Columns(fields, batch, k - 1),
                [name |-> fields[k].name, data |-> << batch, k >>,
                 len |-> BatchRows(batch)])

arrow_to_dataframe_with_field(batch, q, field, keep) ==
    IF field.dtype # "Struct"
      THEN [ok |-> FALSE, df |-> NoFrame, released |-> ConvReleased(FALSE, FALSE),
            err |-> ComputeError(<< "Expected", "struct", "data", "type",
                                    "from", "SAS", "data" >>)]
    ELSE IF q = "bad_array"
      THEN [ok |-> FALSE, df |-> NoFrame, released |-> ConvReleased(FALSE, FALSE),
            err |-> ComputeError(<< "Failed", "to", "import", "array:", "ffi" >>)]
    ELSE IF q = "bad_column"
      THEN [ok |-> FALSE, df |-> NoFrame, released |-> ConvReleased(FALSE, FALSE),
            err |-> ComputeError(<< "Failed", "to", "create", "column", "series:", "ffi" >>)]
    ELSE LET retains == Len(field.fields) > 0 /\ (HasZeroCopy(field) \/ keep)
         IN  [ok |-> TRUE, released |-> ConvReleased(TRUE, retains), err |-> NoError,
              df |-> [batch |-> batch, cols |-> Columns(field.fields, batch, Len(field.fields)),
                      retains |-> retains, rel |-> ConvReleased(TRUE, retains)]]

\* record of a buffer whose last owner is gone: how often release was called,
\* whether a release came after the fetching call returned, and whether one
\* came after the reader handle was destroyed
BufRecord(rel, late, postDestroy) == [rel |-> rel, late |-> late, postDestroy |-> postDestroy]

\* the buffer of a failed conversion has no owner left when the call returns
FailedBuf(c) == IF c.ok THEN { } ELSE { BufRecord(c.released, FALSE, FALSE) }

\* ----------------------------------------- SasReader::read_next_batch
\* mutant of read_next_batch: the batch is fetched first and the schema
\* resolved after it
read_next_batch_fetch_first(r1, r2, q, keep) ==
    LET g == get_schema_info(rd.cached_schema, rd.cached_arrow_field, r1)
        base == [cs |-> g.cached_schema, caf |-> g.cached_arrow_field,
                 cursor |-> eng.cursor, newbufs |-> { }, newdescs |-> g.descs,
                 newframes |-> { }]
    IN  IF ~g.ok
          THEN [base EXCEPT !.cursor = eng.cursor + 1] @@
               [res |-> Res("Err", g.err, NoFrame, << >>),
                calls |-> << Call("next_batch", r2.code) >> \o g.calls]
        ELSE IF r2.code = SasArrowErrorEndOfData
          THEN base @@ [res |-> Res("Err", ComputeError(EndOfDataReached), NoFrame, << >>),
                        calls |-> g.calls \o << Call("next_batch", r2.code) >>]
        ELSE IF r2.code # SasArrowOk
          THEN base @@ [res |-> Res("Err", error_from_code(r2.code, r2.smsg, r2.lerr),
                                    NoFrame, << >>),
                        calls |-> g.calls \o << Call("next_batch", r2.code) >> \o ErrCalls]
        ELSE LET c == arrow_to_dataframe_with_field(eng.cursor, q, g.cached_arrow_field[1],
                                                    keep)
                 b == [base EXCEPT !.cursor = eng.cursor + 1,
                                   !.newbufs = FailedBuf(c),
                                   !.newframes = IF c.ok THEN { c.df } ELSE { }]
             IN  b @@ [res |-> IF c.ok THEN Res("Ok", NoError, c.df, << >>)
                                       ELSE Res("Err", c.err, NoFrame, << >>),
                       calls |-> g.calls \o << Call("next_batch", r2.code) >>]

\* Effect of read_next_batch: r1 answers the schema fetch (if one is made), r2
\* the next-batch call, q is the condition of the array handed over
read_next_batch(r1, r2, q, keep) ==
    LET g == get_schema_info(rd.cached_schema, rd.cached_arrow_field, r1)
        base == [cs |-> g.cached_schema, caf |-> g.cached_arrow_field,
                 cursor |-> eng.cursor, newbufs |-> { }, newdescs |-> g.descs,
                 newframes |-> { }]
    IN  IF ~g.ok
          THEN base @@ [res |-> Res("Err", g.err, NoFrame, << >>), calls |-> g.calls]
        ELSE IF r2.code = SasArrowErrorEndOfData
          THEN base @@ [res |-> Res("Err", ComputeError(EndOfDataReached), NoFrame, << >>),
                        calls |-> g.calls \o << Call("next_batch", r2.code) >>]
        ELSE IF r2.code # SasArrowOk
          THEN base @@ [res |-> Res("Err", error_from_code(r2.code, r2.smsg, r2.lerr),
                                    NoFrame, << >>),
                        calls |-> g.calls \o << Call("next_batch", r2.code) >> \o ErrCalls]
        ELSE LET c == arrow_to_dataframe_with_field(eng.cursor, q, g.cached_arrow_field[1],
                                                    keep)
                 b == [base EXCEPT !.cursor = eng.cursor + 1,
                                   !.newbufs = FailedBuf(c),
                                   !.newframes = IF c.ok THEN { c.df } ELSE { }]
             IN  b @@ [res |-> IF c.ok THEN Res("Ok", NoError, c.df, << >>)
                                       ELSE Res("Err", c.err, NoFrame, << >>),
                       calls |-> g.calls \o << Call("next_batch", r2.code) >>]

\* what the consumer's copy of a returned DataFrame means for its buffer
Held(df) == [retains |-> df.retains, rel |-> df.rel]

\* the effect e of an operation op(arg) becomes the next state
Apply(op, arg, e, res, fault) ==
    /\ rd' = [rd EXCEPT !.cached_schema = e.cs, !.cached_arrow_field = e.caf,
                        !.state = IF e.res.kind = "Panic" THEN "panicked" ELSE @]
    /\ eng' = [eng EXCEPT !.cursor = e.cursor]
    /\ bufs' = bufs \cup e.newbufs
    /\ sdescs' = sdescs \cup e.newdescs
    /\ frames' = frames (+) SetToBag({ Held(f) : f \in e.newframes })
    /\ ncalls' = Bump(ncalls, e.calls)
    /\ last' = Last(op, arg, e.calls, res, e.res.kind)
    /\ faulted' = (faulted \/ fault)
    /\ nops' = nops + 1

\* every way the environment can answer one read_next_batch: P(e, fault) holds
\* of the effect and of whether the engine failed
NextBatchEffects(P(_, _)) ==
    \E r1 \in SchemaResps :
      LET g == get_schema_info(rd.cached_schema, rd.cached_arrow_field, r1)
      IN  \E r2 \in (IF g.ok THEN Resps(NextNatural(eng.cursor),
                                        ErrCodes \ { SasArrowErrorEndOfData })
                             ELSE { OkResp }) :
            LET fetched == g.ok /\ r2.code = SasArrowOk
            IN  \E q \in (IF fetched THEN BatchQualities ELSE { "good" }) :
                \E keep \in (IF fetched THEN KeepChoices(g.cached_arrow_field[1], q)
                                        ELSE { FALSE }) :
                   P(read_next_batch(r1, r2, q, keep),
                     r1 # OkResp \/ (g.ok /\ r2 # NextNatural(eng.cursor)) \/ q # "good")

ReadNextBatch ==
    /\ Usable
    /\ it.owner = "reader"
    /\ LET P(e, fault) == Apply("read_next_batch", 0, e, e.res, fault)
       IN  NextBatchEffects(P)
    /\ UNCHANGED << file, it, outs >>


\* ---------------------------------------------- SasReader::read_batch
\* the bound printed by the out-of-range message: num_batches - 1 in u32
MaxIndexText(num_batches) == ToString(U32WrappingDec(U32(num_batches)))

OutOfRange(batch_index, num_batches) ==
    ComputeError(<< "Batch", "index", ToString(batch_index), "out", "of", "range",
                    "(max:", MaxIndexText(num_batches), ")" >>)

\* sas_arrow_reader_get_batch_with_schema: batch i of the file, whatever the cursor
BatchNatural(i) ==
    IF i < file.num_batches THEN OkResp
    ELSE [code |-> SasArrowErrorInvalidBatchIndex, smsg |-> None, lerr |-> None]

\* mutant of RequestedIndex: the engine is asked for the batch after
RequestedIndex_after(batch_index) == batch_index + 1

\* the index read_batch passes to the engine, whose array it then decodes
RequestedIndex(batch_index) == batch_index

\* mutant of BatchByIndexCall: the batch is fetched through the forward cursor
BatchByIndexCall_next(code) == Call("next_batch", code)

\* the one engine call read_batch fetches the batch with
BatchByIndexCall(code) == Call("get_batch_with_schema", code)

\* Effect of read_batch(batch_index); wraps says whether the unsigned
\* subtraction 0 - 1 wraps (overflow checks off) or panics (overflow checks on)
read_batch(batch_index, r1, r2, q, keep, wraps) ==
    LET g == get_schema_info(rd.cached_schema, rd.cached_arrow_field, r1)
        same == [cs |-> rd.cached_schema, caf |-> rd.cached_arrow_field,
                 cursor |-> eng.cursor, newbufs |-> { }, newdescs |-> { },
                 newframes |-> { }]
        base == [same EXCEPT !.cs = g.cached_schema, !.caf = g.cached_arrow_field,
                             !.newdescs = g.descs]
    IN  IF batch_index >= rd.info.num_batches
          THEN IF rd.info.num_batches = 0 /\ ~wraps
                 THEN same @@ [res |-> Res("Panic", NoError, NoFrame, << >>), calls |-> << >>]
                 ELSE same @@ [res |-> Res("Err", OutOfRange(batch_index, rd.info.num_batches),
                                           NoFrame, << >>),
                               calls |-> << >>]
        ELSE IF ~g.ok
          THEN base @@ [res |-> Res("Err", g.err, NoFrame, << >>), calls |-> g.calls]
        ELSE IF r2.code # SasArrowOk
          THEN base @@ [res |-> Res("Err", error_from_code(r2.code, r2.smsg, r2.lerr),
                                    NoFrame, << >>),
                        calls |-> g.calls \o << BatchByIndexCall(r2.code) >>
                                   \o ErrCalls]
        ELSE LET c == arrow_to_dataframe_with_field(RequestedIndex(batch_index), q,
                                                    g.cached_arrow_field[1],
                                                    keep)
                 b == [base EXCEPT !.newbufs = FailedBuf(c),
                                   !.newdescs = g.descs \cup
                                       { [origin |-> "get_batch_with_schema", rel |-> 0] },
                                   !.newframes = IF c.ok THEN { c.df } ELSE { }]
             IN  b @@ [res |-> IF c.ok THEN Res("Ok", NoError, c.df, << >>)
                                       ELSE Res("Err", c.err, NoFrame, << >>),
                       calls |-> g.calls \o << BatchByIndexCall(r2.code) >>]

ReadBatch ==
    /\ Usable
    /\ it.owner = "reader"
    /\ \E i \in 0 .. MaxBatches :
         IF i >= rd.info.num_batches
           THEN \E wraps \in (IF rd.info.num_batches = 0 THEN BOOLEAN ELSE { TRUE }) :
                   LET e == read_batch(i, OkResp, OkResp, "good", FALSE, wraps)
                   IN  Apply("read_batch", i, e, e.res, FALSE)
           ELSE \E r1 \in SchemaResps :
                  LET g == get_schema_info(rd.cached_schema, rd.cached_arrow_field, r1)
                  IN  \E r2 \in (IF g.ok THEN Resps(BatchNatural(i), ErrCodes)
                                         ELSE { OkResp }) :
                        LET fetched == g.ok /\ r2.code = SasArrowOk
                        IN  \E q \in (IF fetched THEN BatchQualities ELSE { "good" }) :
                            \E keep \in (IF fetched
                                           THEN KeepChoices(g.cached_arrow_field[1], q)
                                           ELSE { FALSE }) :
                               LET e == read_batch(i, r1, r2, q, keep, TRUE)
                               IN  Apply("read_batch", i, e, e.res,
                                         r1 # OkResp \/ (g.ok /\ r2 # BatchNatural(i))
                                           \/ q # "good")
    /\ UNCHANGED << file, it, outs >>

\* --------------------------------------------------- SasReader::reset
\* mutant of reset: a successful reset also drops the cached schema
reset_clears_cache(r) ==
    LET same == [cs |-> rd.cached_schema, caf |-> rd.cached_arrow_field,
                 cursor |-> eng.cursor, newbufs |-> { }, newdescs |-> { },
                 newframes |-> { }]
    IN  IF r.code # SasArrowOk
          THEN same @@ [res |-> Res("Err", error_from_code(r.code, r.smsg, r.lerr),
                                    NoFrame, << >>),
                        calls |-> << Call("reset", r.code) >> \o ErrCalls]
          ELSE [same EXCEPT !.cursor = 0, !.cs = None, !.caf = None] @@
               [res |-> Res("Ok", NoError, NoFrame, << >>), calls |-> << Call("reset", r.code) >>]

\* Effect of reset, the engine answering r to sas_arrow_reader_reset: on Ok the
\* engine has rewound its forward cursor
reset(r) ==
    LET same == [cs |-> rd.cached_schema, caf |-> rd.cached_arrow_field,
                 cursor |-> eng.cursor, newbufs |-> { }, newdescs |-> { },
                 newframes |-> { }]
    IN  IF r.code # SasArrowOk
          THEN same @@ [res |-> Res("Err", error_from_code(r.code, r.smsg, r.lerr),
                                    NoFrame, << >>),
                        calls |-> << Call("reset", r.code) >> \o ErrCalls]
          ELSE [same EXCEPT !.cursor = 0] @@
               [res |-> Res("Ok", NoError, NoFrame, << >>), calls |-> << Call("reset", r.code) >>]

Reset ==
    /\ Usable
    /\ it.owner = "reader"
    /\ \E r \in Resps(OkResp, ErrCodes) :
         LET e == reset(r) IN Apply("reset", 0, e, e.res, r # OkResp)
    /\ UNCHANGED << file, it, outs >>

\* ---------------------------------------------------- SasReader::info
\* mutant of Info: the engine is asked again on every call
Info_requery ==
    /\ rd.state = "open" /\ nops < (IF it.owner = "iterator" THEN MaxOps ELSE MaxCalls)
    /\ last' = Last("info", 0, << Call("get_info", SasArrowOk) >>,
                    Res("Ok", NoError, NoFrame, EngInfo), "Ok")
    /\ nops' = nops + 1
    /\ UNCHANGED << file, eng, rd, it, bufs, sdescs, frames, ncalls, outs, faulted >>

\* also SasBatchIterator::info, which forwards to it
Info ==
    /\ Usable
    /\ last' = Last("info", 0, << >>, Res("Ok", NoError, NoFrame, rd.info), "Ok")
    /\ nops' = nops + 1
    /\ UNCHANGED << file, eng, rd, it, bufs, sdescs, frames, ncalls, outs, faulted >>

\* ------------------------------------------- SasBatchIterator::next
\* mutant of IsEndOfData: the needle is spelled in lower case
IsEndOfData_lowercase(e) == Contains(to_string(e), << "end", "of", "data" >>)

\* the test next() uses to tell the end of the data from a failure
IsEndOfData(e) == Contains(to_string(e), EndOfDataNeedle)

\* the Option<PolarsResult<DataFrame>> next() makes of read_next_batch's result
NextItem(res) ==
    IF res.kind = "Ok" THEN Res("SomeOk", NoError, res.df, << >>)
    ELSE IF IsEndOfData(res.err) THEN Res("None", NoError, NoFrame, << >>)
    ELSE Res("SomeErr", res.err, NoFrame, << >>)

OutItem(res) == [kind |-> res.kind, batch |-> res.df.batch]

\* mutant of FinishedAfter: only a failure ends the stream, the end of the data
\* does not
FinishedAfter_only_failure(res) == res.kind # "Ok" /\ ~IsEndOfData(res.err)

\* the finished flag after a next() that called read_next_batch: left false by
\* Ok, set by both arms of Err
FinishedAfter(res) == res.kind # "Ok"

IterNext ==
    /\ Usable
    /\ it.owner = "iterator"
    /\ IF it.finished
         THEN /\ last' = Last("next", 0, << >>, Res("None", NoError, NoFrame, << >>), "none")
              /\ outs' = Append(outs, [kind |-> "None", batch |-> 0])
              /\ nops' = nops + 1
              /\ UNCHANGED << eng, rd, it, bufs, sdescs, frames, ncalls, faulted >>
         ELSE LET P(e, fault) ==
                      LET item == NextItem(e.res)
                      IN  /\ Apply("next", 0, e, item, fault)
                          /\ it' = [it EXCEPT !.finished = FinishedAfter(e.res)]
                          /\ outs' = Append(outs, OutItem(item))
              IN  NextBatchEffects(P)
    /\ UNCHANGED file

\* -------------------------------------------------- Drop for SasReader
\* dropping the SasReader, or the SasBatchIterator that owns it (also while a
\* panic unwinds): the handle is not null, so it is destroyed
\* mutant of Drop: the null test is inverted, the handle is never destroyed
Drop_leak ==
    /\ rd.state \in { "open", "panicked" }
    /\ rd' = [rd EXCEPT !.state = "dropped"]
    /\ UNCHANGED << file, eng, it, bufs, sdescs, frames, ncalls, last, outs, nops, faulted >>

Drop ==
    /\ rd.state \in { "open", "panicked" }
    /\ rd' = [rd EXCEPT !.state = "dropped"]
    /\ eng' = [eng EXCEPT !.handle = "destroyed"]
    /\ ncalls' = Bump(ncalls, << Call("destroy", SasArrowOk) >>)
    /\ UNCHANGED << file, it, bufs, sdescs, frames, last, outs, nops, faulted >>

\* the consumer drops a DataFrame it was given; if the frame retains the batch
\* buffer, this is where the buffer's release callback runs
DropFrame ==
    /\ \E f \in BagToSet(frames) :
         /\ frames' = frames (-) SetToBag({ f })
         /\ bufs' = bufs \cup
                IF f.retains
                  THEN { BufRecord(f.rel + 1, TRUE, eng.handle = "destroyed") }
                  ELSE { BufRecord(f.rel, FALSE, FALSE) }
    /\ UNCHANGED << file, eng, rd, it, sdescs, ncalls, last, outs, nops, faulted >>

\* a SasReader used directly
Next ==
    \/ SasReaderNew("reader")
    \/ GetSchemaInfo
    \/ ReadNextBatch
    \/ ReadBatch
    \/ Reset
    \/ Info
    \/ Drop
    \/ DropFrame

Spec == Init /\ [][Next]_vars

\* a SasReader owned by a SasBatchIterator
NextIter ==
    \/ SasReaderNew("iterator")
    \/ GetSchemaInfo
    \/ Info
    \/ IterNext
    \/ Drop
    \/ DropFrame

SpecIter == Init /\ [][NextIter]_vars


\* ------------------------------------------- the conversions, one by one
\* physical types a raw schema's child can have (ArrowDataType), the ones
\* arrow_dtype_to_polars names and some it does not
ArrowTypes ==
    { "Utf8", "LargeUtf8", "Int64", "Float64", "Timestamp_s", "Timestamp_ms",
      "Timestamp_us", "Timestamp_ns", "Date32", "Time64_us", "Time64_ns",
      "Int32", "Float32", "Boolean", "Date64", "Time32_ms", "Binary" }

\* a file of two columns of any physical types; nothing is open yet
InitFn ==
    /\ file \in { [num_batches |-> 0,
                   schema |-> StructSchema(<< Col("a", t1), Col("b", t2) >>)] :
                     t1 \in ArrowTypes, t2 \in ArrowTypes }
    /\ eng = [handle |-> "none", cursor |-> 0]
    /\ rd = [state |-> "none", info |-> NoInfo,
             cached_schema |-> None, cached_arrow_field |-> None]
    /\ it = [owner |-> "none", finished |-> FALSE]
    /\ bufs = { }
    /\ sdescs = { }
    /\ frames = EmptyBag
    /\ ncalls = [f \in CountedFns |-> 0]
    /\ last = [op |-> "init", arg |-> 0, calls |-> << >>, res |-> NoRes, inner |-> "none",
               wasFinished |-> FALSE, hadSchema |-> FALSE]
    /\ outs = << >>
    /\ nops = 0
    /\ faulted = FALSE

\* arrow_schema_to_polars_schema applied to the file's raw schema
ResolveTypes ==
    /\ last.op = "init"
    /\ LET c == arrow_schema_to_polars_schema(file.schema)
       IN  last' = Last("arrow_schema_to_polars_schema", 0, << >>,
                        IF c.ok THEN Res("Ok", NoError, NoFrame, c.schema)
                                ELSE Res("Err", c.err, NoFrame, << >>),
                        IF c.ok THEN "Ok" ELSE "Err")
    /\ UNCHANGED << file, eng, rd, it, bufs, sdescs, frames, ncalls, outs, nops, faulted >>

\* error_from_code applied to a non-OK code, the engine answering smsg to
\* sas_arrow_error_message and lerr to sas_arrow_get_last_error
SurfaceError ==
    /\ last.op = "init"
    /\ \E code \in ErrCodes : \E smsg \in StaticMsgs : \E lerr \in LastErrors :
         last' = Last("error_from_code", code, ErrCalls,
                      Res("Err", error_from_code(code, smsg, lerr), NoFrame,
                          << smsg, lerr >>), "Err")
    /\ UNCHANGED << file, eng, rd, it, bufs, sdescs, frames, ncalls, outs, nops, faulted >>

\* ---- ScalarMapper: the engine's decoding of one raw value
\* A raw numeric is kept as a count of halves (37400 is 18700.0, 7 is 3.5).  An
\* integer too wide for one word is kept as << high, low >>: microseconds as
\* high * Million + low, nanoseconds as high * Billion + low.
DATE_EPOCH_OFFSET == 3653
DATETIME_EPOCH_OFFSET_SECONDS == 315619200
Million == 1000000
Billion == 1000000000

RawNumerics == { -2, 0, 7, 7306, 37400, 37401, 631238400, 631238401, 631238410 }

RawValues ==
    [null : BOOLEAN, tag : { "numeric" }, halves : RawNumerics]
      \cup [null : BOOLEAN, tag : { "text", "other" }, halves : { 0 }]

SemanticTypes == { "String", "Float64", "Int64", "Date", "DateTime", "Time" }

Null == [kind |-> "Null", v |-> 0]

\* mutant of decode: the epoch offsets are left out
decode_no_offset(raw, ctype) ==
    IF raw.null THEN Null
    ELSE IF raw.tag = "text" THEN [kind |-> "String", v |-> 0]
    ELSE IF raw.tag # "numeric" THEN Null
    ELSE CASE ctype = "Date" -> [kind |-> "Date", v |-> raw.halves \div 2]
           [] ctype = "DateTime" ->
                  [kind |-> "DateTime",
                   v |-> << raw.halves \div 2, (raw.halves % 2) * (Million \div 2) >>]
           [] ctype = "Time" ->
                  [kind |-> "Time",
                   v |-> << raw.halves \div 2, (raw.halves % 2) * (Billion \div 2) >>]
           [] OTHER -> [kind |-> "Numeric", v |-> raw.halves]

\* decode(raw_tagged_value, column_semantic_type)
decode(raw, ctype) ==
    IF raw.null THEN Null
    ELSE IF raw.tag = "text" THEN [kind |-> "String", v |-> 0]
    ELSE IF raw.tag # "numeric" THEN Null
    ELSE CASE ctype = "Date" ->
                  [kind |-> "Date", v |-> (raw.halves - 2 * DATE_EPOCH_OFFSET) \div 2]
           [] ctype = "DateTime" ->
                  LET d == raw.halves - 2 * DATETIME_EPOCH_OFFSET_SECONDS
                  IN  [kind |-> "DateTime",
                       v |-> << d \div 2, (d % 2) * (Million \div 2) >>]
           [] ctype = "Time" ->
                  [kind |-> "Time",
                   v |-> << raw.halves \div 2, (raw.halves % 2) * (Billion \div 2) >>]
           [] OTHER -> [kind |-> "Numeric", v |-> raw.halves]

DecodeScalar ==
    /\ last.op = "init"
    /\ \E raw \in RawValues : \E ctype \in SemanticTypes :
         last' = Last("decode", 0, << >>,
                      Res("Ok", NoError, NoFrame, << raw, ctype, decode(raw, ctype) >>), "Ok")
    /\ UNCHANGED << file, eng, rd, it, bufs, sdescs, frames, ncalls, outs, nops, faulted >>

NextFn ==
    \/ ResolveTypes
    \/ SurfaceError
    \/ DecodeScalar

SpecFn == InitFn /\ [][NextFn]_vars


\* =================================================================== claims
\* the engine calls of the operation l that went to function fn
CallsTo(l, fn) == { i \in 1 .. Len(l.calls) : l.calls[i].fn = fn }

\* the engine failed the schema fetch or the batch fetch of operation l
EngineFailed(l) ==
    \E i \in 1 .. Len(l.calls) :
        /\ l.calls[i].fn \in { "get_schema", "next_batch" }
        /\ l.calls[i].code \notin { SasArrowOk, SasArrowErrorEndOfData }

\* the engine's next-batch call of operation l returned EndOfData
EndOfDataReturned(l) ==
    \E i \in CallsTo(l, "next_batch") : l.calls[i].code = SasArrowErrorEndOfData

\* the engine handed a batch over to operation l
FetchedOk(l) ==
    \E i \in CallsTo(l, "next_batch") \cup CallsTo(l, "get_batch_with_schema") :
        l.calls[i].code = SasArrowOk

\* the file's raw schema converts (a struct of supported columns)
Resolvable == arrow_schema_to_polars_schema(file.schema).ok

\* C1: on an iterator whose engine never fails and holds N decodable batches,
\* the k-th next() returns Some(Ok(batch k-1)) for k <= N and None for k > N,
\* and a next() after the (N+1)-th makes no engine call.
C1_MonotonicExhaustion ==
    (it.owner = "iterator" /\ ~faulted /\ Resolvable) =>
        /\ \A k \in 1 .. Len(outs) :
              outs[k] = IF k <= file.num_batches
                          THEN [kind |-> "SomeOk", batch |-> k - 1]
                          ELSE [kind |-> "None", batch |-> 0]
        /\ (last.op = "next" /\ Len(outs) > file.num_batches + 1) =>
              (last.calls = << >> /\ last.res.kind = "None")

C1_Witness ==
    /\ it.owner = "iterator" /\ ~faulted /\ Resolvable
    /\ file.num_batches = MaxBatches
    /\ Len(outs) = MaxBatches + 2
    /\ last.op = "next"

\* C2: a next() in state Ready whose read fails with anything but the engine's
\* EndOfData returns Some(Err) and finishes the iterator; a next() on a finished
\* iterator returns None and makes no engine call.
C2_ErrorsTerminal ==
    /\ (last.op = "next" /\ ~last.wasFinished /\ last.inner = "Err"
          /\ ~EndOfDataReturned(last)) =>
            (last.res.kind = "SomeErr" /\ it.finished)
    /\ (last.op = "next" /\ last.wasFinished) =>
            (last.res.kind = "None" /\ last.calls = << >>)

\* C3: whenever the engine's next-batch call returns EndOfData, next() returns
\* None, not Some(Err), and the iterator is finished.
C3_EndOfDataNotAnError ==
    (last.op = "next" /\ EndOfDataReturned(last)) =>
        (last.res.kind = "None" /\ it.finished)

C3_Witness ==
    /\ last.op = "next" /\ EndOfDataReturned(last)
    /\ file.num_batches > 0
    /\ last.res.kind = "None"

\* C4: a next() during which the engine returned a code other than Ok and
\* EndOfData returns Some(Err), whatever the message; a next() that called the
\* engine returns None only when next-batch returned EndOfData.
C4_NoFailureSwallowed ==
    last.op = "next" =>
        /\ EngineFailed(last) => last.res.kind = "SomeErr"
        /\ (last.res.kind = "None" /\ ~last.wasFinished) => EndOfDataReturned(last)

\* C5: every batch buffer handed over is released exactly once: a buffer no
\* value owns any more has one release, and a buffer behind a live DataFrame has
\* either been released once or will be by the drop of that frame, not both.
C5_OwnershipLaw ==
    /\ \A b \in bufs : b.rel = 1
    /\ \A f \in BagToSet(frames) : f.rel + (IF f.retains THEN 1 ELSE 0) = 1

C5_Witness ==
    /\ rd.state = "dropped" /\ frames = EmptyBag
    /\ FetchedOk(last) /\ last.inner = "Err"
    /\ \E b \in bufs : b.late
    /\ \E b \in bufs : ~b.late

\* C6 as claimed: every batch buffer is released before the call that fetched
\* it returns, so none is released later, nor after the handle was destroyed.
C6_ReleasedBeforeReturn ==
    /\ \A f \in BagToSet(frames) : f.rel = 1 /\ ~f.retains
    /\ \A b \in bufs : ~b.late /\ ~b.postDestroy

\* C6 as amended: a buffer whose conversion fails, or whose DataFrame shares
\* none of it, is released once before the fetching call returns; a buffer the
\* returned DataFrame shares is released by the drop of that frame and not
\* before, which may be after the call returned and after the handle was
\* destroyed.
C6_ReleasedWithLastOwner ==
    /\ \A f \in BagToSet(frames) : f.retains <=> f.rel = 0
    /\ \A b \in bufs : b.rel = 1 /\ (b.postDestroy => b.late)
    /\ (last.op \in { "read_next_batch", "read_batch" } /\ FetchedOk(last)
          /\ last.inner = "Err") => \E b \in bufs : ~b.late

C6_Witness ==
    /\ eng.handle = "destroyed"
    /\ \E b \in bufs : b.late /\ b.postDestroy
    /\ \E b \in bufs : ~b.late

\* C7: once the schema is cached, no step changes cached_schema or
\* cached_arrow_field or calls the engine's schema accessor again, and every
\* successful schema query returns the cached schema.
C7_SchemaCachingIdempotent ==
    [][ /\ rd.cached_schema # None =>
              /\ rd'.cached_schema = rd.cached_schema
              /\ rd'.cached_arrow_field = rd.cached_arrow_field
              /\ ncalls'["get_schema"] = ncalls["get_schema"]
        /\ (last'.op = "get_schema_info" /\ last'.res.kind = "Ok") =>
              last'.res.val = rd'.cached_schema[1] ]_vars

C7_Witness ==
    /\ last.op = "get_schema_info" /\ last.hadSchema /\ last.res.kind = "Ok"
    /\ ncalls["get_schema"] = 1
    /\ eng.cursor > 0

\* C8: the engine's schema accessor is called at most once in a reader's
\* lifetime, also when the first resolution failed.
C8_SchemaFetchedAtMostOnce == ncalls["get_schema"] <= 1

\* physical types of the mapping table of the design, and of the code
SpecTableTypes ==
    { "Utf8", "LargeUtf8", "Float64", "Date32", "Timestamp_s", "Timestamp_ms",
      "Timestamp_us", "Timestamp_ns", "Time64_us", "Time64_ns" }

CodeTableTypes == SpecTableTypes \cup { "Int64" }

\* the raw schema is no struct, or has a child whose type is outside table
OutsideTable(raw, table) ==
    \/ raw.dtype # "Struct"
    \/ \E j \in 1 .. Len(raw.children) : raw.children[j].dtype \notin table

\* nothing is cached, every schema query and read has failed, no batch was fetched
RejectedSchema ==
    /\ rd.cached_schema = None /\ rd.cached_arrow_field = None
    /\ CallsTo(last, "get_schema") # { } => last.inner = "Err"
    /\ ~FetchedOk(last) /\ CallsTo(last, "next_batch") = { }
    /\ CallsTo(last, "get_batch_with_schema") = { }
    /\ eng.cursor = 0 /\ bufs = { } /\ frames = EmptyBag

\* C9 as claimed: a raw schema that is no struct, or has a column whose type is
\* outside the design's mapping table, is rejected: nothing cached, no batch fetched.
C9_RejectsOutsideSpecTable == OutsideTable(file.schema, SpecTableTypes) => RejectedSchema

\* C9 as amended: the same for the mapping the code implements, which accepts
\* 64-bit integer columns besides the types of the design's table.
C9_RejectsOutsideCodeTable == OutsideTable(file.schema, CodeTableTypes) => RejectedSchema

C9_Witness ==
    /\ file.schema.dtype = "Struct" /\ OutsideTable(file.schema, CodeTableTypes)
    /\ last.op = "read_next_batch" /\ last.inner = "Err"
    /\ \E i \in CallsTo(last, "get_schema") : last.calls[i].code = SasArrowOk

\* C10: the raw schema descriptor handed over by the schema accessor is
\* released exactly once, whether its conversion succeeded or failed.
C10_RawSchemaReleasedOnce == \A d \in sdescs : d.origin = "get_schema" => d.rel = 1

C10_Witness ==
    /\ last.op = "get_schema_info" /\ last.inner = "Err"
    /\ \E i \in CallsTo(last, "get_schema") : last.calls[i].code = SasArrowOk
    /\ \E d \in sdescs : d.origin = "get_schema"

\* the column names of a sequence of columns, in order
RECURSIVE Names(_)
Names(cols) == IF cols = << >> THEN << >> ELSE << cols[1].name >> \o Names(Tail(cols))

\* C11: the resolved schema lists the raw schema's struct children c_0..c_k in
\* their physical order, whatever their names.
C11_ColumnOrderPreserved ==
    rd.cached_schema # None => Names(rd.cached_schema[1]) = Names(file.schema.children)

\* C12: a batch returned by read_next_batch or read_batch has its columns in the
\* order of, and named as, the schema get_schema_info returns on that reader,
\* and every column is as long as the batch has rows.
C12_BatchMatchesSchema ==
    (last.op \in { "read_next_batch", "read_batch" } /\ last.res.kind = "Ok") =>
        /\ Names(last.res.df.cols) = Names(rd.cached_schema[1])
        /\ \A j \in 1 .. Len(last.res.df.cols) :
              last.res.df.cols[j].len = BatchRows(last.res.df.batch)

\* C13: read_batch(i) with i >= batch_count, batch_count = 0 included, returns
\* the out-of-range error and no batch, calls no engine function (so the
\* engine's cursor stays) and leaves the cache as it was.
C13_OutOfRangeRejected ==
    (last.op = "read_batch" /\ last.arg >= file.num_batches) =>
        /\ last.res.kind = "Err"
        /\ Contains(last.res.err.msg, << "out", "of", "range" >>)
        /\ last.calls = << >>
        /\ (rd.cached_schema # None) = last.hadSchema

\* C14: read_batch returns a value, Ok or Err, for every index and every reader
\* info, num_batches = 0 included: it never panics.
C14_ReadBatchNeverPanics ==
    last.op = "read_batch" => last.res.kind \in { "Ok", "Err" }

\* the step is the call op on the reader
Called(op) == nops' = nops + 1 /\ last'.op = op

\* C15: a read_batch, whatever its index and outcome, leaves the forward cursor
\* where it was and calls neither next-batch nor reset, and a read_next_batch
\* returns the batch under the forward cursor: the batches streamed are those
\* streamed without the read_batch calls.
C15_RandomAccessKeepsStream ==
    [][ /\ Called("read_batch") =>
              /\ eng'.cursor = eng.cursor
              /\ CallsTo(last', "next_batch") = { }
              /\ CallsTo(last', "reset") = { }
        /\ (Called("read_next_batch") /\ last'.res.kind = "Ok") =>
              (last'.res.df.batch = eng.cursor /\ eng'.cursor = eng.cursor + 1) ]_vars

C15_Witness ==
    /\ last.op = "read_next_batch" /\ last.res.kind = "Ok" /\ last.res.df.batch = 1
    /\ \E d \in sdescs : d.origin = "get_batch_with_schema"
    /\ nops = 3

\* df is batch i of the file decoded with the cached arrow field: one column
\* per struct field, named after it, holding child j of batch i
IsBatch(df, i) ==
    LET fields == rd.cached_arrow_field[1].fields
    IN  /\ df.batch = i
        /\ Len(df.cols) = Len(fields)
        /\ \A j \in 1 .. Len(fields) :
              df.cols[j] = [name |-> fields[j].name, data |-> << i, j >>,
                            len |-> BatchRows(i)]

\* C16: for a valid index i, read_batch(i) returns batch i decoded with the
\* cached field, and the read_next_batch that moves the forward cursor from i
\* to i + 1 returns the same: the i-th batch streamed from a reset cursor.
C16_RandomAccessEqualsStream ==
    /\ (last.op = "read_batch" /\ last.res.kind = "Ok") =>
          (last.arg < file.num_batches /\ IsBatch(last.res.df, last.arg))
    /\ (last.op = "read_next_batch" /\ last.res.kind = "Ok") =>
          IsBatch(last.res.df, eng.cursor - 1)

C16_Witness ==
    /\ last.op = "read_batch" /\ last.res.kind = "Ok" /\ last.arg = 1
    /\ eng.cursor = 2
    /\ BagCardinality(frames) = 3

\* C17: a successful reset puts the forward cursor at batch 0 from any
\* position, so that a read_next_batch right after it returns batch 0; a reset,
\* successful or failed, leaves cached_schema, cached_arrow_field and the
\* reader info as they were, and a failed one returns the error.
C17_ResetRewinds ==
    [][ /\ Called("reset") =>
              /\ rd'.cached_schema = rd.cached_schema
              /\ rd'.cached_arrow_field = rd.cached_arrow_field
              /\ rd'.info = rd.info
              /\ last'.res.kind \in { "Ok", "Err" }
              /\ last'.res.kind = "Ok" => eng'.cursor = 0
              /\ last'.res.kind = "Err" =>
                    \E i \in CallsTo(last', "reset") : last'.calls[i].code # SasArrowOk
        /\ (last.op = "reset" /\ last.res.kind = "Ok"
              /\ Called("read_next_batch") /\ last'.res.kind = "Ok") =>
              last'.res.df.batch = 0 ]_vars

\* two batches came from read_next_batch and none from read_batch, and the
\* second is batch 0 again: a reset lies between them
C17_Witness ==
    /\ last.op = "read_next_batch" /\ last.res.kind = "Ok" /\ last.res.df.batch = 0
    /\ last.hadSchema
    /\ BagCardinality(frames) = 2
    /\ ~ \E d \in sdescs : d.origin = "get_batch_with_schema"

\* the handle was created, and how often it has been destroyed so far
HandleLifecycle ==
    /\ ncalls["destroy"] <= 1
    /\ eng.handle = "destroyed" <=> ncalls["destroy"] = 1
    /\ rd.state = "dropped" => ncalls["destroy"] = 1
    /\ rd.state \in { "open", "panicked" } => (eng.handle = "open" /\ ncalls["destroy"] = 0)
    /\ (rd.state = "failed" /\ last.calls[1].code # SasArrowOk) =>
          (eng.handle = "none" /\ ncalls["destroy"] = 0)
    /\ (rd.state = "failed" /\ last.calls[1].code = SasArrowOk) =>
          (CountIn(last.calls, "destroy") = 1 /\ ncalls["destroy"] = 1)

\* C18: a handle created by SasReader::new is destroyed exactly once, by the
\* drop of the reader or inside new when get_info fails, and not at all when the
\* create call fails; once it is destroyed no engine function is called any more.
C18_HandleDestroyedOnce ==
    [][ /\ HandleLifecycle'
        /\ eng.handle = "destroyed" => (ncalls' = ncalls /\ last' = last /\ eng' = eng) ]_vars

C18_Witness ==
    /\ rd.state = "dropped" /\ ncalls["destroy"] = 1
    /\ nops = MaxCalls
    /\ frames # EmptyBag

\* the k-th item of an iterator over the file when the engine never fails:
\* the batches in order and then None if the schema resolves, one error and
\* then None if it does not
ExpectedItem(k) ==
    IF Resolvable
      THEN IF k <= file.num_batches THEN [kind |-> "SomeOk", batch |-> k - 1]
                                    ELSE [kind |-> "None", batch |-> 0]
      ELSE IF k = 1 THEN [kind |-> "SomeErr", batch |-> 0]
                    ELSE [kind |-> "None", batch |-> 0]

\* C19: a schema query (SasBatchIterator::schema, SasReader::get_schema_info)
\* calls no batch-fetch function of the engine, moves no cursor, leaves the
\* finished flag and the items produced as they were; and the items next()
\* produces are those the file dictates, however many schema queries were made
\* in between.
C19_SchemaQueryNeedsNoBatch ==
    [][ /\ Called("get_schema_info") =>
              /\ eng' = eng /\ it' = it /\ outs' = outs
              /\ bufs' = bufs /\ frames' = frames
              /\ CallsTo(last', "next_batch") = { }
              /\ CallsTo(last', "get_batch_with_schema") = { }
        /\ (it'.owner = "iterator" /\ ~faulted') =>
              \A k \in 1 .. Len(outs') : outs'[k] = ExpectedItem(k) ]_vars

\* schema() called in mid-stream: one batch produced, more to come
C19_Witness ==
    /\ it.owner = "iterator" /\ ~faulted
    /\ last.op = "get_schema_info" /\ last.res.kind = "Ok"
    /\ outs = << [kind |-> "SomeOk", batch |-> 0] >>
    /\ eng.cursor = 1 /\ file.num_batches = MaxBatches
    /\ ~it.finished

\* C20: the info of an open reader is what the engine reported at open and no
\* step changes it; info() returns it without calling the engine, and no
\* operation after new asks the engine for it again.
C20_InfoImmutable ==
    [][ /\ rd.state = "open" => rd'.info = rd.info
        /\ rd'.state = "open" => rd'.info = EngInfo
        /\ Called("info") =>
              (last'.res.val = rd.info /\ last'.calls = << >> /\ rd' = rd /\ eng' = eng)
        /\ last'.op # "new" => CallsTo(last', "get_info") = { } ]_vars

C20_Witness ==
    /\ last.op = "info" /\ last.res.val = EngInfo
    /\ file.num_batches = MaxBatches
    /\ eng.cursor > 0 /\ rd.cached_schema # None
    /\ nops = MaxCalls

\* the mapping table of the design: physical type to semantic type
SpecTable(t) ==
    CASE t \in { "Utf8", "LargeUtf8" } -> "String"
      [] t = "Float64" -> "Float64"
      [] t = "Date32" -> "Date"
      [] t \in { "Timestamp_s", "Timestamp_ms" } -> "Datetime_ms"
      [] t = "Timestamp_us" -> "Datetime_us"
      [] t = "Timestamp_ns" -> "Datetime_ns"
      [] t \in { "Time64_us", "Time64_ns" } -> "Time"

\* the same with the row for 64-bit integers
CodeTable(t) == IF t = "Int64" THEN "Int64" ELSE SpecTable(t)

\* the conversion of the file's schema maps the columns of a type in types as
\* Table says and fails, naming an unsupported type, if a column is of another
MappedAs(types, Table(_)) ==
    last.op = "arrow_schema_to_polars_schema" =>
        LET cs == file.schema.children
        IN  IF \A j \in 1 .. Len(cs) : cs[j].dtype \in types
              THEN /\ last.res.kind = "Ok"
                   /\ Len(last.res.val) = Len(cs)
                   /\ \A j \in 1 .. Len(cs) : \E k \in 1 .. Len(last.res.val) :
                         last.res.val[k] = Col(cs[j].name, Table(cs[j].dtype))
              ELSE /\ last.res.kind = "Err"
                   /\ Contains(last.res.err.msg, << "Unsupported" >>)

\* C21 as claimed: the type mapping is the design's table (UTF-8 narrow or wide
\* to String, 64-bit float to Float64, 32-bit day count to Date, timestamp to
\* DateTime with seconds raised to milliseconds, 64-bit time-of-day to Time) and
\* every other physical type is an unsupported-type error.
C21_MappingIsSpecTable == MappedAs(SpecTableTypes, SpecTable)

\* C21 as amended: the mapping is the design's table plus 64-bit integer to
\* Int64, and every other physical type is an unsupported-type error.
C21_MappingIsCodeTable == MappedAs(CodeTableTypes, CodeTable)

C21_Witness ==
    /\ last.op = "arrow_schema_to_polars_schema" /\ last.res.kind = "Ok"
    /\ file.schema.children[1].dtype = "Timestamp_s"
    /\ file.schema.children[2].dtype = "Int64"
    /\ last.res.val = << Col("a", "Datetime_ms"), Col("b", "Int64") >>

\* text ends with the words of tail
EndsWith(text, tail) ==
    /\ Len(text) >= Len(tail)
    /\ SubSeq(text, Len(text) - Len(tail) + 1, Len(text)) = tail

IsScaled(w, halves, base) ==
    /\ 2 * w[1] + (IF w[2] = 0 THEN 0 ELSE 1) = halves
    /\ w[2] \in { 0, base \div 2 }

\* C23: a non-null raw numeric decodes under a Date column to Date(raw - 3653)
\* as an integer day count (18700 to 15047), under a DateTime column to
\* (raw - 315619200) * 1000000 microseconds, under a Time column to
\* raw * 1000000000 nanoseconds; a raw value whose null flag is set decodes to
\* Null under every column type.
C23_ScalarMapping ==
    last.op = "decode" =>
        LET raw == last.res.val[1]
            ctype == last.res.val[2]
            out == last.res.val[3]
            numeric == ~raw.null /\ raw.tag = "numeric"
        IN  /\ raw.null => out = [kind |-> "Null", v |-> 0]
            /\ (numeric /\ ctype = "Date") =>
                  /\ out.kind = "Date"
                  /\ 2 * (out.v + 3653) \in { raw.halves, raw.halves - 1 }
                  /\ raw.halves = 2 * 18700 => out.v = 15047
            /\ (numeric /\ ctype = "DateTime") =>
                  /\ out.kind = "DateTime"
                  /\ IsScaled(out.v, raw.halves - 2 * 315619200, 1000000)
            /\ (numeric /\ ctype = "Time") =>
                  /\ out.kind = "Time"
                  /\ IsScaled(out.v, raw.halves, 1000000000)

C23_Witness ==
    /\ last.op = "decode"
    /\ last.res.val[1] = [null |-> FALSE, tag |-> "numeric", halves |-> 631238410]
    /\ last.res.val[2] = "DateTime"
    /\ last.res.val[3] = [kind |-> "DateTime", v |-> << 5, 0 >>]

\* C24: cached_schema and cached_arrow_field are both None or both Some; when
\* Some, the field is the file's raw schema as imported and the schema holds
\* exactly that field's columns, so both come from the one raw schema; a read
\* that was handed a batch found the field to unwrap.
C24_CachePairConsistent ==
    /\ rd.cached_schema = None <=> rd.cached_arrow_field = None
    /\ rd.cached_schema # None =>
          LET field == rd.cached_arrow_field[1]
              schema == rd.cached_schema[1]
          IN  /\ field = [dtype |-> file.schema.dtype, fields |-> file.schema.children]
              /\ field.dtype = "Struct"
              /\ Len(schema) = Len(field.fields)
              /\ \A j \in 1 .. Len(field.fields) : \E k \in 1 .. Len(schema) :
                    /\ schema[k].name = field.fields[j].name
                    /\ schema[k].dtype = CodeTable(field.fields[j].dtype)
    /\ FetchedOk(last) => (rd.cached_arrow_field # None /\ last.res.kind # "Panic")

C24_Witness ==
    /\ last.op = "read_batch" /\ FetchedOk(last) /\ ~last.hadSchema
    /\ rd.cached_schema # None /\ rd.cached_arrow_field # None
    /\ Len(rd.cached_arrow_field[1].fields) = 2

\* the calls of operation l to the engine's two batch functions
BatchCalls(l) == CallsTo(l, "next_batch") \cup CallsTo(l, "get_batch_with_schema")

\* C25: a read_next_batch or read_batch calls the engine's batch function only
\* with the schema resolved, and after the schema fetch if it made one; a read
\* that leaves the schema unresolved returns no batch, has called no batch
\* function, and leaves the forward cursor and the buffers as they were.
C25_SchemaBeforeFetch ==
    [][ (Called("read_next_batch") \/ Called("read_batch")) =>
          /\ BatchCalls(last') # { } =>
                /\ rd'.cached_schema # None
                /\ \A i \in CallsTo(last', "get_schema") :
                      /\ last'.calls[i].code = SasArrowOk
                      /\ \A j \in BatchCalls(last') : i < j
          /\ rd'.cached_schema = None =>
                /\ last'.res.kind # "Ok"
                /\ BatchCalls(last') = { }
                /\ eng' = eng /\ bufs' = bufs /\ frames' = frames ]_vars

C25_Witness ==
    /\ last.op = "read_next_batch" /\ last.res.kind = "Err"
    /\ rd.cached_schema = None
    /\ \E i \in CallsTo(last, "get_schema") : last.calls[i].code # SasArrowOk
    /\ nops = 1 /\ file.num_batches > 0 /\ Resolvable

\* C26: the schema descriptor the engine fills in on a successful
\* get-batch-with-schema call is released exactly once before read_batch
\* returns, so read_batch calls leave no descriptor unreleased.
C26_BatchSchemaReleased ==
    \A d \in sdescs : d.origin = "get_batch_with_schema" => d.rel = 1

====
